---- MODULE Spec2Model ----
(***************************************************************************)
(* Graph store and mind-map reconciliation of idea.ai                      *)
(* (src/src/lib/store.ts, driven by the chat panel in src/unnamed/part_006).*)
(*                                                                         *)
(* Strings that the code only compares or copies (ids, descriptions) are   *)
(* TLA+ strings.  Labels are sequences of one-character strings, because   *)
(* the code lowercases and trims them.  The description "" stands for both *)
(* the empty string and undefined (both are falsy and both compare unequal *)
(* to every non-empty description).  Node positions are not modelled: they *)
(* are random and no operation reads them.                                 *)
(***************************************************************************)
EXTENDS Integers, Sequences, FiniteSets, TLC

VARIABLES nodes, edges, nextId, isLoading, ops, last, via,
          messages, hasInitialized, parsed, flight, engine

vars == <<nodes, edges, nextId, isLoading, ops, last, via,
          messages, hasInitialized, parsed, flight, engine>>

(***************************************************************************)
(* Bounds of the model.                                                    *)
(***************************************************************************)
\* operations (merges and user edits) in one run
MaxOps == 2

\* the number of calls to the AIService in a run
MaxCalls == 4

(***************************************************************************)
(* Strings.                                                                *)
(***************************************************************************)
\* String.prototype.toLowerCase on the characters the model uses
ToLowerChar(c) ==
    CASE c = "A" -> "a" [] c = "B" -> "b" [] c = "C" -> "c" [] c = "G" -> "g"
      [] OTHER -> c

ToLowerCase(s) == [i \in 1..Len(s) |-> ToLowerChar(s[i])]

RECURSIVE TrimStart(_)
TrimStart(s) ==
    IF s # <<>> /\ Head(s) = " " THEN TrimStart(Tail(s)) ELSE s

RECURSIVE TrimEnd(_)
TrimEnd(s) ==
    IF s # <<>> /\ s[Len(s)] = " " THEN TrimEnd(SubSeq(s, 1, Len(s) - 1)) ELSE s

\* String.prototype.trim
Trim(s) == TrimEnd(TrimStart(s))

\* String(label || '').toLowerCase().trim(): the de-duplication key
NormalizeLabel(label) == Trim(ToLowerCase(label))

\* id.includes('root'): of the ids the model uses only "root" contains it
IncludesRoot(id) == id = "root"

\* the ids minted by uuidv4() and by `node-${Date.now()}-${index}-${random}`:
\* distinct from each other and from every id minted before
FreshId(k) == <<"n1", "n2", "n3", "n4", "n5", "n6", "n7", "n8", "n9", "n10",
                "n11", "n12", "n13", "n14", "n15", "n16">>[k]

(***************************************************************************)
(* Maps (JavaScript Map): functions with a finite domain.                  *)
(***************************************************************************)
EmptyMap == [k \in {} |-> 0]

MapHas(m, k) == k \in DOMAIN m

MapSet(m, k, v) == [x \in (DOMAIN m) \cup {k} |-> IF x = k THEN v ELSE m[x]]

\* new Map(entries): a later entry with the same key replaces an earlier one
RECURSIVE MapOfEntries(_, _)
MapOfEntries(keys, vals) ==
    IF keys = <<>> THEN EmptyMap
    ELSE LET n == Len(keys)
         IN  MapSet(MapOfEntries(SubSeq(keys, 1, n - 1), SubSeq(vals, 1, n - 1)),
                    keys[n], vals[n])

Ids(ns) == {ns[i].id : i \in DOMAIN ns}

(***************************************************************************)
(* The store's data.  A node is [id, label, description, type]; an edge is *)
(* [kind, source, target], where kind is the prefix of the edge's id, which *)
(* names the code path that created it ("e": addNode, "edge": a proposal's *)
(* edge, "edge-orphan": orphan auto-attachment).                           *)
(***************************************************************************)
Node(id, label, description, type) ==
    [id |-> id, label |-> label, description |-> description, type |-> type]

Edge(kind, source, target) == [kind |-> kind, source |-> source, target |-> target]

\* `${e.source}-${e.target}`
EdgeKey(source, target) == source \o "-" \o target

\* array.find(pred) over an array of nodes: the first match, or NoNode
NoNode == [id |-> "undefined"]

\* new Map(currentNodes.map(n => [n.id, n]))
ExistingNodeById(currentNodes) ==
    MapOfEntries([i \in DOMAIN currentNodes |-> currentNodes[i].id], currentNodes)

\* a variant of ExistingNodeByLabel keyed by the labels as they are stored,
\* without lowercasing and trimming
ExistingNodeByRawLabel(currentNodes) ==
    MapOfEntries([i \in DOMAIN currentNodes |-> currentNodes[i].label], currentNodes)

\* new Map(currentNodes.map(n => [String(n.data.label || '').toLowerCase().trim(), n]))
ExistingNodeByLabel(currentNodes) ==
    MapOfEntries([i \in DOMAIN currentNodes |-> NormalizeLabel(currentNodes[i].label)],
                 currentNodes)

\* mergedNodes.find(n => n.id.includes('root') || mergedNodes.indexOf(n) === 0)
FindRootNode(ns) ==
    LET hits == {i \in DOMAIN ns : IncludesRoot(ns[i].id) \/ i = 1}
    IN  IF hits = {} THEN NoNode
        ELSE ns[CHOOSE i \in hits : \A j \in hits : i <= j]

(***************************************************************************)
(* setMindMapFromJSON, step by step.                                       *)
(***************************************************************************)
\* nodeUpdates are processed first: one updated copy per update that names a
\* live node and carries a description
RECURSIVE ApplyNodeUpdates(_, _)
ApplyNodeUpdates(byId, updates) ==
    IF updates = <<>> THEN <<>>
    ELSE LET u == Head(updates)
             rest == ApplyNodeUpdates(byId, Tail(updates))
         IN  IF MapHas(byId, u.id) /\ u.description # ""
             THEN <<[byId[u.id] EXCEPT !.description = u.description]>> \o rest
             ELSE rest

\* the body of mapData.nodes.forEach for one proposal node n at position
\* index; acc carries updatedNodes, newNodes, idMapping and the label map
ProcessNode(acc, n, byId, firstFresh) ==
    LET normalizedLabel == NormalizeLabel(n.label)
    IN  IF normalizedLabel = <<>> THEN acc
        ELSE IF n.id = "root" /\ MapHas(byId, n.id)
        THEN [acc EXCEPT
                !.updatedNodes = @ \o <<[byId[n.id] EXCEPT
                    !.label = n.label,
                    !.description = IF n.description # "" THEN n.description ELSE @]>>,
                !.idMapping = MapSet(@, n.id, n.id)]
        ELSE IF MapHas(acc.byLabel, normalizedLabel)
        THEN LET existingByLabel == acc.byLabel[normalizedLabel]
                 alreadyUpdated ==
                     \E i \in DOMAIN acc.updatedNodes :
                         acc.updatedNodes[i].id = existingByLabel.id
             IN  [acc EXCEPT
                    !.idMapping = MapSet(@, n.id, existingByLabel.id),
                    !.updatedNodes =
                        IF /\ n.description # ""
                           /\ n.description # existingByLabel.description
                           /\ ~alreadyUpdated
                        THEN @ \o <<[existingByLabel EXCEPT
                                        !.description = n.description]>>
                        ELSE @]
        ELSE LET newId == FreshId(firstFresh + Len(acc.newNodes))
             IN  [acc EXCEPT
                    !.idMapping = MapSet(@, n.id, newId),
                    !.newNodes = @ \o <<Node(newId, n.label, n.description, "expandable")>>,
                    \* the entry registered in the label map carries no type
                    !.byLabel = MapSet(@, normalizedLabel,
                                       Node(newId, n.label, n.description, "none"))]

RECURSIVE ProcessNodes(_, _, _, _)
ProcessNodes(acc, pnodes, byId, firstFresh) ==
    IF pnodes = <<>> THEN acc
    ELSE ProcessNodes(ProcessNode(acc, Head(pnodes), byId, firstFresh),
                      Tail(pnodes), byId, firstFresh)

\* a merged list without the nodes the proposal left alone
MergedNodesReplacing(currentNodes, updatedNodes, newNodes) ==
    updatedNodes \o newNodes

\* [...unchangedNodes, ...updatedNodes, ...newNodes]
MergedNodes(currentNodes, updatedNodes, newNodes) ==
    LET updatedNodeIds == Ids(updatedNodes)
        unchangedNodes == SelectSeq(currentNodes, LAMBDA n : n.id \notin updatedNodeIds)
    IN  unchangedNodes \o updatedNodes \o newNodes

\* idMapping.get(id) || id
Remap(idMapping, id) == IF MapHas(idMapping, id) THEN idMapping[id] ELSE id

\* a variant of MapEdge that rewrites the endpoints and leaves an unknown
\* source as it is
MapEdgeNoFallback(e, idMapping, mergedNodes) ==
    [source |-> Remap(idMapping, e.source), target |-> Remap(idMapping, e.target)]

\* the first .map over the proposal's edges: endpoints rewritten, an unknown
\* source replaced by the root node's id
MapEdge(e, idMapping, mergedNodes) ==
    LET allNodeIds == Ids(mergedNodes)
        mapped == Remap(idMapping, e.source)
        rootNode == FindRootNode(mergedNodes)
        sourceId == IF mapped \in allNodeIds THEN mapped
                    ELSE IF rootNode # NoNode THEN rootNode.id ELSE "root"
    IN  [source |-> sourceId, target |-> Remap(idMapping, e.target)]

\* a variant of KeepEdge that does not look at the target
KeepEdgeNoTargetCheck(e, allNodeIds, existingEdgeKeys) ==
    /\ e.source \in allNodeIds
    /\ EdgeKey(e.source, e.target) \notin existingEdgeKeys

\* the .filter: both endpoints live and the pair not among the store's edges
KeepEdge(e, allNodeIds, existingEdgeKeys) ==
    /\ e.source \in allNodeIds
    /\ e.target \in allNodeIds
    /\ EdgeKey(e.source, e.target) \notin existingEdgeKeys

NewEdgesFromAI(pedges, idMapping, mergedNodes, currentEdges) ==
    LET existingEdgeKeys ==
            {EdgeKey(currentEdges[i].source, currentEdges[i].target) :
                i \in DOMAIN currentEdges}
        mappedEdges == [i \in DOMAIN pedges |-> MapEdge(pedges[i], idMapping, mergedNodes)]
        kept == SelectSeq(mappedEdges,
                          LAMBDA e : KeepEdge(e, Ids(mergedNodes), existingEdgeKeys))
    IN  [i \in DOMAIN kept |-> Edge("edge", kept[i].source, kept[i].target)]

\* newNodesNeedingEdges after the .map: the new nodes no proposal edge targets
NewNodesNeedingEdges(newNodes, pedges, idMapping) ==
    LET targets == {Remap(idMapping, pedges[i].target) : i \in DOMAIN pedges}
    IN  SelectSeq([i \in DOMAIN newNodes |-> newNodes[i].id],
                  LAMBDA id : id \notin targets)

\* one edge root -> orphan for every new node left in newNodesNeedingEdges
OrphanEdges(mergedNodes, orphans, currentEdges) ==
    LET existingEdgeKeys ==
            {EdgeKey(currentEdges[i].source, currentEdges[i].target) :
                i \in DOMAIN currentEdges}
        rootNode == FindRootNode(mergedNodes)
        attach == SelectSeq(orphans,
                            LAMBDA id : EdgeKey(rootNode.id, id) \notin existingEdgeKeys)
    IN  IF rootNode = NoNode THEN <<>>
        ELSE [i \in DOMAIN attach |-> Edge("edge-orphan", rootNode.id, attach[i])]

\* setMindMapFromJSON(mapData) on the store (currentNodes, currentEdges): the
\* new node and edge lists, with the handler's locals kept for inspection
SetMindMapFromJSON(currentNodes, currentEdges, mapData, firstFresh) ==
    LET byId == ExistingNodeById(currentNodes)
        acc0 == [updatedNodes |-> ApplyNodeUpdates(byId, mapData.nodeUpdates),
                 newNodes |-> <<>>,
                 idMapping |-> EmptyMap,
                 byLabel |-> ExistingNodeByLabel(currentNodes)]
        acc == ProcessNodes(acc0, mapData.nodes, byId, firstFresh)
        mergedNodes == MergedNodes(currentNodes, acc.updatedNodes, acc.newNodes)
        newEdgesFromAI ==
            NewEdgesFromAI(mapData.edges, acc.idMapping, mergedNodes, currentEdges)
        orphans == NewNodesNeedingEdges(acc.newNodes, mapData.edges, acc.idMapping)
        orphanEdges == OrphanEdges(mergedNodes, orphans, currentEdges)
    IN  [nodes |-> mergedNodes,
         edges |-> currentEdges \o newEdgesFromAI \o orphanEdges,
         newNodes |-> acc.newNodes,
         updatedNodes |-> acc.updatedNodes,
         idMapping |-> acc.idMapping,
         orphans |-> orphans]

(***************************************************************************)
(* The user-editing operations of the store.                               *)
(***************************************************************************)
\* a variant of AddNodeResult that links the new node to parentId without
\* looking for it among the nodes
AddNodeResultNoParentCheck(currentNodes, currentEdges, label, parentId, type, description, id) ==
    [nodes |-> Append(currentNodes, Node(id, label, description, type)),
     edges |-> IF parentId # ""
               THEN Append(currentEdges, Edge("e", parentId, id))
               ELSE currentEdges]

\* a variant of AddNodeResult that adds no edge when parentId names no node
AddNodeResultNoFallback(currentNodes, currentEdges, label, parentId, type, description, id) ==
    [nodes |-> Append(currentNodes, Node(id, label, description, type)),
     edges |-> IF parentId # "" /\ parentId \in Ids(currentNodes)
               THEN Append(currentEdges, Edge("e", parentId, id))
               ELSE currentEdges]

\* addNode(label, parentId, type, description): parentId "" stands for an
\* absent parentId
AddNodeResult(currentNodes, currentEdges, label, parentId, type, description, id) ==
    LET parentExists == parentId # "" /\ parentId \in Ids(currentNodes)
        effectiveParentId ==
            IF parentExists THEN parentId
            ELSE IF Len(currentNodes) > 0 THEN currentNodes[1].id ELSE ""
    IN  [nodes |-> Append(currentNodes, Node(id, label, description, type)),
         edges |-> IF effectiveParentId # ""
                   THEN Append(currentEdges, Edge("e", effectiveParentId, id))
                   ELSE currentEdges]

\* a variant of NodesToDelete that collects the head of the queue and does
\* not follow its outgoing edges
NodesToDeleteNoCascade(q, nodesToDelete, currentEdges) ==
    IF q = <<>> THEN nodesToDelete ELSE nodesToDelete \cup {Head(q)}

\* the while loop of deleteNode: q is the queue, nodesToDelete the set
\* collected so far; an id already collected is skipped, any other id is
\* collected and the targets of its outgoing edges are queued
RECURSIVE NodesToDelete(_, _, _)
NodesToDelete(q, nodesToDelete, currentEdges) ==
    IF q = <<>> THEN nodesToDelete
    ELSE LET currentId == Head(q)
             out == SelectSeq(currentEdges, LAMBDA e : e.source = currentId)
         IN  IF currentId \in nodesToDelete
             THEN NodesToDelete(Tail(q), nodesToDelete, currentEdges)
             ELSE NodesToDelete(Tail(q) \o [i \in DOMAIN out |-> out[i].target],
                                nodesToDelete \cup {currentId}, currentEdges)

DeleteNodeResult(currentNodes, currentEdges, id) ==
    LET nodesToDelete == NodesToDelete(<<id>>, {}, currentEdges)
    IN  [nodes |-> SelectSeq(currentNodes, LAMBDA n : n.id \notin nodesToDelete),
         edges |-> SelectSeq(currentEdges,
                        LAMBDA e : e.source \notin nodesToDelete
                                   /\ e.target \notin nodesToDelete)]

\* `${label} (Copy)`
CopyLabel(label) == label \o <<" ", "(", "C", "o", "p", "y", ")">>

\* duplicateNode(id): a copy of the first node with that id, with a fresh id
\* and no edges; nothing when there is no such node
DuplicateNodeResult(currentNodes, id, newId) ==
    LET hits == {i \in DOMAIN currentNodes : currentNodes[i].id = id}
        nodeToClone == currentNodes[CHOOSE i \in hits : \A j \in hits : i <= j]
    IN  IF hits = {} THEN currentNodes
        ELSE Append(currentNodes,
                    [nodeToClone EXCEPT !.id = newId, !.label = CopyLabel(@)])

(***************************************************************************)
(* parseAIResponse: the text parser.  Text is a sequence of symbols: the   *)
(* characters, with each marker word ('MESSAGE:', 'QUESTION:', 'PARENT:',  *)
(* 'TOPIC', 'NEWTOPIC', 'OPTIONS:') and each fixed phrase of the parser a  *)
(* single symbol.                                                          *)
(***************************************************************************)
\* the entries of a proposal (updatedMindMap)
PNode(id, label, description) ==
    [id |-> id, label |-> label, description |-> description]

PEdge(source, target) == [source |-> source, target |-> target]

PUpdate(id, description) == [id |-> id, description |-> description]

Proposal(pnodes, pedges, pupdates) ==
    [nodes |-> pnodes, edges |-> pedges, nodeUpdates |-> pupdates]

\* String.prototype.includes
Includes(s, t) == \E i \in 0..(Len(s) - Len(t)) : SubSeq(s, i + 1, i + Len(t)) = t

\* String.prototype.split on a one-character separator
RECURSIVE SplitOn(_, _)
SplitOn(s, sep) ==
    LET hits == {i \in DOMAIN s : s[i] = sep}
        first == CHOOSE i \in hits : \A j \in hits : i <= j
    IN  IF hits = {} THEN <<s>>
        ELSE <<SubSeq(s, 1, first - 1)>> \o SplitOn(SubSeq(s, first + 1, Len(s)), sep)

\* String.prototype.split(/\s+/)
RECURSIVE SplitWords(_)
SplitWords(s) ==
    LET hits == {i \in DOMAIN s : s[i] = " "}
        first == CHOOSE i \in hits : \A j \in hits : i <= j
    IN  IF hits = {} THEN <<s>>
        ELSE <<SubSeq(s, 1, first - 1)>>
             \o SplitWords(TrimStart(SubSeq(s, first + 1, Len(s))))

\* s.replace(/^\[|\]$/g, '')
StripBrackets(s) ==
    LET t == IF s # <<>> /\ Head(s) = "[" THEN Tail(s) ELSE s
    IN  IF t # <<>> /\ t[Len(t)] = "]" THEN SubSeq(t, 1, Len(t) - 1) ELSE t

\* line.replace(/^(TOPIC\d?|NEWTOPIC):?\s*/, '') on a line that starts with
\* one of the two markers; the digits of the model's alphabet are 1 and 2
StripTopicPrefix(line) ==
    LET a == Tail(line)
        b == IF Head(line) = "TOPIC" /\ a # <<>> /\ Head(a) \in {"1", "2"}
             THEN Tail(a) ELSE a
        c == IF b # <<>> /\ Head(b) = ":" THEN Tail(b) ELSE b
    IN  TrimStart(c)

\* a || b on strings
OrElse(a, b) == IF a # <<>> THEN a ELSE b

\* the topic a TOPIC or NEWTOPIC line declares: name and description around
\* the first '|', the description defaulting to the name
TopicOf(line, currentParentName) ==
    LET split == SplitOn(StripTopicPrefix(line), "|")
        parts == [i \in DOMAIN split |-> Trim(split[i])]
        name  == Trim(StripBrackets(parts[1]))
        desc  == Trim(StripBrackets(OrElse(IF Len(parts) >= 2 THEN parts[2] ELSE <<>>,
                                           name)))
    IN  [name |-> name, desc |-> desc, preferredParent |-> currentParentName]

\* the list an OPTIONS: line declares
OptionsOf(line) ==
    LET split == SplitOn(Tail(line), ",")
        items == [i \in DOMAIN split |-> StripBrackets(Trim(split[i]))]
    IN  SelectSeq(items, LAMBDA s : s # <<>>)

\* one round of the loop over the lines
ParseLine(acc, line) ==
    CASE Head(line) = "MESSAGE:"  -> [acc EXCEPT !.message = Trim(Tail(line))]
      [] Head(line) = "QUESTION:" -> [acc EXCEPT !.message = Trim(Tail(line))]
      [] Head(line) = "PARENT:"   -> [acc EXCEPT !.currentParentName = Trim(Tail(line))]
      [] Head(line) \in {"TOPIC", "NEWTOPIC"} ->
            LET topic == TopicOf(line, acc.currentParentName)
            IN  IF topic.name # <<>>
                THEN [acc EXCEPT !.topics = Append(@, topic)]
                ELSE acc
      [] Head(line) = "OPTIONS:"  -> [acc EXCEPT !.options = OptionsOf(line)]
      [] OTHER -> acc

RECURSIVE ParseLines(_, _)
ParseLines(acc, lines) ==
    IF lines = <<>> THEN acc
    ELSE ParseLines(ParseLine(acc, Head(lines)), Tail(lines))

\* `Here's your plan for ${goal}. Click any topic or type to expand.`
DefaultMessage(goal) ==
    <<"Here's your plan for ">> \o goal \o <<". Click any topic or type to expand.">>

\* s.slice(0, n)
Slice(s, n) == SubSeq(s, 1, IF Len(s) < n THEN Len(s) ELSE n)

\* `aspect-${i}` and `node-${timestamp}-${index}-new`, the timestamp being
\* later than every timestamp in the graph
AspectId(i) == <<"aspect-1", "aspect-2", "aspect-3">>[i]

NewTopicId(index) == <<"node-9-0-new", "node-9-1-new", "node-9-2-new">>[index + 1]

\* getTimestamp: the number between 'node-' and the next '-' of an id, 0 for
\* an id of another shape; over the ids the model uses
GetTimestamp(id) ==
    CASE id \in {"node-1-0-a", "node-1-1-b"} -> 1
      [] id \in {"node-2-0-c"} -> 2
      [] id \in {"node-9-0-new", "node-9-1-new", "node-9-2-new", "node-9-user"} -> 9
      [] OTHER -> 0

\* sortedByRecency[0]: the sort is stable, so among the nodes other than the
\* root with the latest timestamp it is the first in the list
MostRecentNode(existingNodes, rootId) ==
    LET c == SelectSeq(existingNodes, LAMBDA n : n.id # rootId)
    IN  IF c = <<>> THEN NoNode
        ELSE c[CHOOSE i \in DOMAIN c :
                 \A j \in DOMAIN c :
                    /\ GetTimestamp(c[j].id) <= GetTimestamp(c[i].id)
                    /\ j < i => GetTimestamp(c[j].id) < GetTimestamp(c[i].id)]

\* step 1: the first node whose lowercased label contains the declared
\* parent's lowercased name or is contained in it
DeclaredParent(existingNodes, preferredParent) ==
    LET pp == ToLowerCase(preferredParent)
        hits == {i \in DOMAIN existingNodes :
                    LET label == ToLowerCase(existingNodes[i].label)
                    IN  Includes(label, pp) \/ Includes(pp, label)}
    IN  IF preferredParent = <<>> \/ hits = {} THEN ""
        ELSE existingNodes[CHOOSE i \in hits : \A j \in hits : i <= j].id

RECURSIVE Sum(_)
Sum(xs) == IF xs = <<>> THEN 0 ELSE Head(xs) + Sum(Tail(xs))

\* matchScore in halves: 2 for a node token equal to a search token, 1 for
\* a node token that contains a search token longer than three characters
MatchScore(searchTokens, nodeTokens) ==
    Sum([i \in DOMAIN searchTokens |->
           Sum([j \in DOMAIN nodeTokens |->
                  IF nodeTokens[j] = searchTokens[i] THEN 2
                  ELSE IF Len(searchTokens[i]) > 3
                          /\ Includes(nodeTokens[j], searchTokens[i]) THEN 1
                  ELSE 0])])

\* (lastUserMessage + " " + topic.name).toLowerCase().split(/\s+/), without
\* the tokens of one character or none
SearchTokens(lastUserMessage, name) ==
    SelectSeq(SplitWords(ToLowerCase(lastUserMessage \o <<" ">> \o name)),
              LAMBDA t : Len(t) > 1)

\* a variant of SemanticWinner that takes a score of 0.35 or above
SemanticWinnerAtLeast(existingNodes, rootId, lastUserMessage, name) ==
    LET searchTokens == SearchTokens(lastUserMessage, name)
        half(i) == MatchScore(searchTokens,
                              SplitWords(ToLowerCase(existingNodes[i].label)))
        cand == {i \in DOMAIN existingNodes :
                    existingNodes[i].id # rootId /\ half(i) > 0}
        best == CHOOSE i \in cand :
                    \A j \in cand : /\ half(j) <= half(i)
                                    /\ j < i => half(j) < half(i)
    IN  IF searchTokens = <<>> \/ cand = {} THEN ""
        ELSE IF 10 * half(best) >= 7 * Len(searchTokens)
        THEN existingNodes[best].id
        ELSE ""

\* step 2: the first node other than the root with the highest score, when
\* that score is above 0.35; every node's score is its matchScore over the
\* same number of search tokens
SemanticWinner(existingNodes, rootId, lastUserMessage, name) ==
    LET searchTokens == SearchTokens(lastUserMessage, name)
        half(i) == MatchScore(searchTokens,
                              SplitWords(ToLowerCase(existingNodes[i].label)))
        cand == {i \in DOMAIN existingNodes :
                    existingNodes[i].id # rootId /\ half(i) > 0}
        best == CHOOSE i \in cand :
                    \A j \in cand : /\ half(j) <= half(i)
                                    /\ j < i => half(j) < half(i)
    IN  IF searchTokens = <<>> \/ cand = {} THEN ""
        ELSE IF 10 * half(best) > 7 * Len(searchTokens)
        THEN existingNodes[best].id
        ELSE ""

\* a || b on ids
OrId(a, b) == IF a # "" THEN a ELSE b

\* the fallback with the recency step ahead of the focus step
AnchorFallbackRecencyFirst(focusNodeId, mostRecentNode, rootId, defaultParentId) ==
    IF mostRecentNode # NoNode THEN mostRecentNode.id
    ELSE IF focusNodeId # "" THEN focusNodeId
    ELSE OrId(rootId, defaultParentId)

\* steps 3 and 4: the current focus, else the most recent node, else the root
AnchorFallback(focusNodeId, mostRecentNode, rootId, defaultParentId) ==
    IF focusNodeId # "" THEN focusNodeId
    ELSE IF mostRecentNode # NoNode THEN mostRecentNode.id
    ELSE OrId(rootId, defaultParentId)

\* the message, topics and options the lines of a response declare
ParsedLines(response, goal) ==
    LET lines == SelectSeq(SplitOn(response, "\n"), LAMBDA l : Trim(l) # <<>>)
    IN  ParseLines([message |-> DefaultMessage(goal), topics |-> <<>>,
                    options |-> <<>>, currentParentName |-> <<>>], lines)

\* the parent chosen for one topic
ResolveParent(topic, existingNodes, defaultParentId, lastUserMessage) ==
    LET rootNode == FindRootNode(existingNodes)
        rootId == rootNode.id
        mostRecentNode == MostRecentNode(existingNodes, rootId)
        focusNodeId == IF defaultParentId # rootId THEN defaultParentId ELSE ""
        declared == DeclaredParent(existingNodes, topic.preferredParent)
        semantic == SemanticWinner(existingNodes, rootId, lastUserMessage, topic.name)
        parentId == IF declared # "" THEN declared
                    ELSE IF semantic # "" THEN semantic
                    ELSE AnchorFallback(focusNodeId, mostRecentNode, rootId,
                                        defaultParentId)
    IN  OrId(parentId, OrId(rootId, defaultParentId))

\* parseAIResponse(response, goal, existingNodes, newNodeId, defaultParentId,
\* lastUserMessage)
ParseAIResponse(response, goal, existingNodes, newNodeId, defaultParentId, lastUserMessage) ==
    LET acc == ParsedLines(response, goal)
        topics == acc.topics
    IN  IF existingNodes = <<>>
        THEN [assistantResponse |-> acc.message,
              updatedMindMap |->
                 [nodes |-> <<PNode("root", Slice(goal, 30), goal)>>
                            \o [i \in DOMAIN topics |->
                                  PNode(AspectId(i), topics[i].name, topics[i].desc)],
                  edges |-> [i \in DOMAIN topics |-> PEdge("root", AspectId(i))]],
              suggestions |->
                 IF acc.options # <<>> THEN acc.options
                 ELSE [i \in DOMAIN Slice(topics, 3) |-> topics[i].name]]
        ELSE [assistantResponse |-> acc.message,
              updatedMindMap |->
                 IF topics # <<>>
                 THEN [nodes |-> [i \in DOMAIN topics |->
                                    PNode(NewTopicId(i - 1), topics[i].name,
                                          topics[i].desc)],
                       edges |-> [i \in DOMAIN topics |->
                                    PEdge(ResolveParent(topics[i], existingNodes,
                                                        defaultParentId,
                                                        lastUserMessage),
                                          NewTopicId(i - 1))]]
                 ELSE [nodes |-> <<PNode(newNodeId,
                                         OrElse(lastUserMessage, <<"New Topic">>),
                                         <<"Details about ">> \o lastUserMessage)>>,
                       edges |-> <<PEdge(defaultParentId, newNodeId)>>],
              suggestions |-> acc.options]

(***************************************************************************)
(* Manual edge operations of the board.                                    *)
(***************************************************************************)
\* addEdge(connection, edges) of @xyflow/react: the list itself when an end
\* is missing or an edge with the connection's source and target exists
\* (the handles of the nodes carry no ids), else the list with a new edge
AddEdge(connection, currentEdges) ==
    IF connection.source = "" \/ connection.target = "" THEN currentEdges
    ELSE IF \E i \in DOMAIN currentEdges :
                /\ currentEdges[i].source = connection.source
                /\ currentEdges[i].target = connection.target
    THEN currentEdges
    ELSE Append(currentEdges, Edge("xy-edge", connection.source, connection.target))

\* onReconnect(oldEdge, newConnection), oldEdge being the i-th edge: edge
\* ids are taken to be unique
ReconnectResult(currentEdges, i, newConnection) ==
    IF newConnection.source # "" /\ newConnection.target # ""
    THEN [currentEdges EXCEPT ![i].source = newConnection.source,
                              ![i].target = newConnection.target]
    ELSE currentEdges

(***************************************************************************)
(* Inputs.                                                                 *)
(***************************************************************************)
LabelA == <<"A">>
\* a case and whitespace variant of LabelA
LabelAVariant == <<"a", " ">>
LabelB == <<"B">>
LabelBlank == <<" ">>
\* the label of the root: the goal
LabelG == <<"G">>

\* an id that names no node and no proposal entry
UnknownId == "zz"

\* the lists of at most two entries, the first from S and the second from T
UpToTwo(S, T) ==
    {<<>>} \cup {<<a>> : a \in S} \cup {<<a, b>> : a \in S, b \in T}

\* sessions persisted by an earlier run and loaded by the workspace page:
\* graphs whose root carries the id 'root', saved before and after the
\* first messages
SavedSessions ==
    {[nodes |-> <<Node("root", LabelG, "g0", "expandable")>>, edges |-> <<>>,
      messages |-> <<>>],
     [nodes |-> <<Node("root", LabelG, "", "expandable"),
                  Node("aspect-1", LabelA, "d1", "expandable")>>,
      edges |-> <<Edge("edge", "root", "aspect-1")>>,
      messages |-> <<"earlier">>]}

(***************************************************************************)
(* The state machine.  last records the latest store operation: its input, *)
(* the store it ran on and the handler's locals; via holds the kinds of    *)
(* operation that have run on the store so far.  messages is the chat: the *)
(* model keeps the messages of the current turn and writes "earlier" for   *)
(* the ones before it, which no operation of the model reads.  parsed      *)
(* holds a call of the text parser and its result.                         *)
(***************************************************************************)
\* messages with the entries before the current turn folded into "earlier"
Earlier(msgs) == IF msgs = <<>> THEN <<>> ELSE <<"earlier">>

NoParse == [in |-> "none", out |-> "none", done |-> FALSE]

\* the AIService singleton: enginePromise (0 for null, else the number of the
\* CreateMLCEngine call that made it), currentModelId, the model ids of the
\* CreateMLCEngine calls so far with the state of their promises, and the
\* calls served so far with the handle each received
NoEngine ==
    [enginePromise |-> 0, currentModelId |-> "Qwen2.5-1.5B-Instruct-q4f32_1-MLC",
     created |-> <<>>,
     settled |-> <<>>, calls |-> <<>>]

\* flight follows a model request from the moment it is sent: the nodes of
\* the store at that moment, and what the user has added and deleted since
NoFlight == [sent |-> <<>>, added |-> {}, addedPairs |-> {}, deleted |-> {}]

NoProposal == [nodes |-> <<>>, edges |-> <<>>, nodeUpdates |-> <<>>]

NoLast ==
    [op |-> "none", mapData |-> NoProposal, arg |-> "", preNodes |-> <<>>,
     preEdges |-> <<>>, newNodes |-> <<>>, idMapping |-> EmptyMap, orphans |-> <<>>]

Init ==
    /\ nodes = <<>>
    /\ edges = <<>>
    /\ nextId = 1
    /\ isLoading = FALSE
    /\ ops = 0
    /\ last = NoLast
    /\ via = {}
    /\ messages = <<>>
    /\ hasInitialized = FALSE
    /\ parsed = NoParse
    /\ flight = NoFlight
    /\ engine = NoEngine

\* the workspace page's load effect: setMessages(data.messages);
\* setNodes(data.nodes); setEdges(data.edges)
LoadSession ==
    /\ last.op = "none" /\ ~isLoading /\ nodes = <<>>
    /\ \E s \in SavedSessions :
        /\ nodes' = s.nodes
        /\ edges' = s.edges
        /\ messages' = s.messages
        /\ last' = [NoLast EXCEPT !.op = "load"]
    /\ via' = via \cup {"load"}
    /\ flight' = NoFlight
    /\ UNCHANGED <<nextId, isLoading, ops, hasInitialized, parsed, engine>>

\* handleSend up to the awaited aiService.chat call
HandleSend ==
    /\ ~isLoading
    /\ isLoading' = TRUE
    /\ messages' = Earlier(messages) \o <<"user">>
    /\ last' = NoLast
    /\ flight' = [NoFlight EXCEPT !.sent = nodes]
    /\ UNCHANGED <<nodes, edges, nextId, ops, via, hasInitialized, parsed,
                   engine>>

\* processAIResponse merging into the nodes the store held when the request
\* was sent
ProcessAIResponseStale(mapData) ==
    /\ isLoading
    /\ ops < MaxOps
    /\ LET r == SetMindMapFromJSON(flight.sent, edges, mapData, nextId)
       IN  /\ nodes' = r.nodes
           /\ edges' = r.edges
           /\ nextId' = nextId + Len(r.newNodes)
           /\ last' = [op |-> "merge", mapData |-> mapData, arg |-> "",
                       preNodes |-> nodes, preEdges |-> edges,
                       newNodes |-> r.newNodes, idMapping |-> r.idMapping,
                       orphans |-> r.orphans]
    /\ isLoading' = FALSE
    /\ messages' = Append(messages, "assistant")
    /\ ops' = ops + 1
    /\ via' = via \cup {"merge"}
    /\ UNCHANGED <<hasInitialized, parsed, flight, engine>>

\* processAIResponse with a response that carries updatedMindMap = mapData
ProcessAIResponse(mapData) ==
    /\ isLoading
    /\ ops < MaxOps
    /\ LET r == SetMindMapFromJSON(nodes, edges, mapData, nextId)
       IN  /\ nodes' = r.nodes
           /\ edges' = r.edges
           /\ nextId' = nextId + Len(r.newNodes)
           /\ last' = [op |-> "merge", mapData |-> mapData, arg |-> "",
                       preNodes |-> nodes, preEdges |-> edges,
                       newNodes |-> r.newNodes, idMapping |-> r.idMapping,
                       orphans |-> r.orphans]
    /\ isLoading' = FALSE
    /\ messages' = Append(messages, "assistant")
    /\ ops' = ops + 1
    /\ via' = via \cup {"merge"}
    /\ UNCHANGED <<hasInitialized, parsed, flight, engine>>

\* processAIResponse with a response that carries no updatedMindMap: the
\* store is left alone
ProcessAIResponseNoMap ==
    /\ isLoading
    /\ isLoading' = FALSE
    /\ messages' = Append(messages, "assistant")
    /\ flight' = NoFlight
    /\ UNCHANGED <<nodes, edges, nextId, ops, last, via, hasInitialized, parsed,
                   engine>>

AddNode(label, parentId, type, description) ==
    /\ ops < MaxOps
    /\ LET r == AddNodeResult(nodes, edges, label, parentId, type, description,
                              FreshId(nextId))
       IN  /\ nodes' = r.nodes
           /\ edges' = r.edges
           /\ flight' = IF isLoading
                        THEN [flight EXCEPT
                                !.added = @ \cup {FreshId(nextId)},
                                !.addedPairs = @ \cup
                                    {<<r.edges[i].source, r.edges[i].target>> :
                                        i \in DOMAIN r.edges \ DOMAIN edges}]
                        ELSE NoFlight
    /\ nextId' = nextId + 1
    /\ ops' = ops + 1
    /\ last' = [NoLast EXCEPT !.op = "addNode", !.arg = parentId,
                              !.preNodes = nodes, !.preEdges = edges]
    /\ via' = via \cup {"addNode"}
    /\ UNCHANGED <<isLoading, messages, hasInitialized, parsed, engine>>

DeleteNode(id) ==
    /\ ops < MaxOps
    /\ LET r == DeleteNodeResult(nodes, edges, id)
       IN  /\ nodes' = r.nodes
           /\ edges' = r.edges
           /\ flight' = IF isLoading
                        THEN LET gone == Ids(nodes) \ Ids(r.nodes)
                             IN  [flight EXCEPT
                                    !.added = @ \ gone,
                                    !.addedPairs = {p \in @ : p[1] \notin gone
                                                              /\ p[2] \notin gone},
                                    !.deleted = @ \cup gone]
                        ELSE NoFlight
    /\ ops' = ops + 1
    /\ last' = [NoLast EXCEPT !.op = "deleteNode", !.arg = id,
                              !.preNodes = nodes, !.preEdges = edges]
    /\ via' = via \cup {"deleteNode"}
    /\ UNCHANGED <<nextId, isLoading, messages, hasInitialized, parsed,
                   engine>>

DuplicateNode(id) ==
    /\ ops < MaxOps
    /\ nodes' = DuplicateNodeResult(nodes, id, FreshId(nextId))
    /\ nextId' = IF id \in Ids(nodes) THEN nextId + 1 ELSE nextId
    /\ flight' = IF isLoading
                 THEN [flight EXCEPT
                         !.added = IF id \in Ids(nodes)
                                   THEN @ \cup {FreshId(nextId)} ELSE @]
                 ELSE NoFlight
    /\ ops' = ops + 1
    /\ last' = [NoLast EXCEPT !.op = "duplicateNode", !.arg = id,
                              !.preNodes = nodes, !.preEdges = edges]
    /\ via' = via \cup {"duplicateNode"}
    /\ UNCHANGED <<edges, isLoading, messages, hasInitialized, parsed,
                   engine>>

\* initChat up to the awaited aiService.chat call: the greeting, requested
\* once, while the chat is empty and the goal is set
InitChat ==
    /\ ~hasInitialized
    /\ messages = <<>>
    /\ hasInitialized' = TRUE
    /\ isLoading' = TRUE
    /\ last' = NoLast
    /\ flight' = [NoFlight EXCEPT !.sent = nodes]
    /\ UNCHANGED <<nodes, edges, nextId, ops, via, messages, parsed,
                   engine>>

\* the message the catch branch of the call in flight appends: handleSend's
\* call follows the user's message, initChat's an empty chat
ErrorMessage ==
    IF messages # <<>> /\ messages[Len(messages)] = "user" THEN "error" ELSE "ready"

\* a catch branch that appends its message and leaves the loading flag set
ChatRejectsKeepsLoading ==
    /\ isLoading
    /\ messages' = Append(messages, ErrorMessage)
    /\ last' = [NoLast EXCEPT !.op = "reject", !.preNodes = nodes,
                              !.preEdges = edges]
    /\ flight' = NoFlight
    /\ UNCHANGED <<nodes, edges, nextId, isLoading, ops, via, hasInitialized, parsed,
                   engine>>

\* aiService.chat rejects: the catch branch of handleSend ("Sorry, I
\* encountered an error connecting to the AI brain.") or of initChat ("I am
\* ready. State your goal constraint.")
ChatRejects ==
    /\ isLoading
    /\ messages' = Append(messages, ErrorMessage)
    /\ isLoading' = FALSE
    /\ last' = [NoLast EXCEPT !.op = "reject", !.preNodes = nodes,
                              !.preEdges = edges]
    /\ flight' = NoFlight
    /\ UNCHANGED <<nodes, edges, nextId, ops, via, hasInitialized, parsed,
                   engine>>

OnConnect(connection) ==
    /\ ops < MaxOps
    /\ edges' = AddEdge(connection, edges)
    /\ ops' = ops + 1
    /\ last' = [NoLast EXCEPT !.op = "onConnect", !.preNodes = nodes,
                              !.preEdges = edges]
    /\ via' = via \cup {"onConnect"}
    /\ flight' = IF isLoading THEN flight ELSE NoFlight
    /\ UNCHANGED <<nodes, nextId, isLoading, messages, hasInitialized, parsed,
                   engine>>

OnReconnect(i, newConnection) ==
    /\ ops < MaxOps
    /\ edges' = ReconnectResult(edges, i, newConnection)
    /\ ops' = ops + 1
    /\ last' = [NoLast EXCEPT !.op = "onReconnect", !.preNodes = nodes,
                              !.preEdges = edges]
    /\ via' = via \cup {"onReconnect"}
    /\ flight' = IF isLoading THEN flight ELSE NoFlight
    /\ UNCHANGED <<nodes, nextId, isLoading, messages, hasInitialized, parsed,
                   engine>>

\* the connections the board makes: a drag from the source handle of a node
\* to the target handle of a node, and a drag of one end of an edge to the
\* handle of a node
ManualEdit ==
    \/ \E source, target \in Ids(nodes) : OnConnect(PEdge(source, target))
    \/ \E i \in DOMAIN edges, id \in Ids(nodes) :
          \/ OnReconnect(i, PEdge(edges[i].source, id))
          \/ OnReconnect(i, PEdge(id, edges[i].target))

\* the user's edits, with the inputs the model draws for them
UserEdit ==
    \/ \E label \in {LabelA, LabelB}, parentId \in Ids(nodes) \cup {"", UnknownId} :
          AddNode(label, parentId, "expandable", "")
    \/ \E id \in Ids(nodes) \cup {UnknownId} : DeleteNode(id)
    \/ \E id \in Ids(nodes) \cup {UnknownId} : DuplicateNode(id)

\* the proposals that build up a store: what the text parser makes of a
\* first-turn response (a root entry, topics hanging off it) and of a later
\* response (a topic hanging off a live node)
SeedProposals ==
    {Proposal(<<PNode("root", LabelG, "g0")>>, <<>>, <<>>),
     Proposal(<<PNode("root", LabelG, "g0"), PNode("aspect-1", LabelA, "d1")>>,
              <<PEdge("root", "aspect-1")>>, <<>>),
     Proposal(<<PNode("p1", LabelB, "")>>, <<>>, <<>>)}
    \cup {Proposal(<<PNode("p1", LabelA, "")>>, <<PEdge(id, "p1")>>, <<>>) :
            id \in Ids(nodes)}

\* the last operation of a run draws from the wide set, the operations
\* before it from the proposals that build up the store
Inputs(wide) == IF ops + 1 < MaxOps THEN SeedProposals ELSE SeedProposals \cup wide

\* proposals that vary the edge list: up to two edges between the proposal's
\* entries, a live node and an unknown id, over a few node lists
EdgeEndpoints == {"p1", "p2", UnknownId} \cup {nodes[i].id : i \in DOMAIN nodes \cap {1}}

EdgeProposals ==
    {Proposal(pn, pe, <<>>) :
        pn \in {<<>>,
                <<PNode("p1", LabelB, "")>>,
                <<PNode("p1", LabelB, ""), PNode("p2", LabelAVariant, "d1")>>,
                <<PNode("p1", LabelG, "d2"), PNode("p2", LabelB, "")>>},
        pe \in UpToTwo({PEdge(a, b) : a, b \in EdgeEndpoints},
                       {PEdge(a, b) : a, b \in {"p1", "p2"}})}

\* proposals that vary the node list: entries that carry the root marker or
\* not, whose label matches a node of the store exactly, up to case and
\* whitespace, or not at all, or is blank; alone (with or without an edge
\* from an unknown source and a nodeUpdate for a live node) or in pairs
FirstEntries ==
    {PNode(id, label, description) :
        id \in {"root", "p1"},
        label \in {LabelG, LabelAVariant, LabelB, LabelBlank},
        description \in {"", "d1", "d2"}}

SecondEntries ==
    {PNode(id, label, description) :
        id \in {"p1", "p2"}, label \in {LabelAVariant, LabelB},
        description \in {"d2"}}

NodeProposals ==
    {Proposal(pn, pe, pu) :
        pn \in UpToTwo(FirstEntries, {}),
        pe \in {<<>>, <<PEdge(UnknownId, "p1")>>},
        pu \in {<<>>} \cup {<<PUpdate(id, "d2")>> : id \in Ids(nodes)}}
    \cup {Proposal(<<a, b>>, <<>>, <<>>) : a \in FirstEntries, b \in SecondEntries}

Respond == \E mapData \in Inputs(EdgeProposals) : ProcessAIResponse(mapData)

RespondNodes == \E mapData \in Inputs(NodeProposals) : ProcessAIResponse(mapData)

Next ==
    \/ LoadSession
    \/ HandleSend
    \/ Respond
    \/ ProcessAIResponseNoMap
    \/ UserEdit

Spec == Init /\ [][Next]_vars

NextNodes ==
    \/ LoadSession
    \/ HandleSend
    \/ RespondNodes
    \/ ProcessAIResponseNoMap
    \/ UserEdit

\* the same system with proposals that vary the node list
SpecNodes == Init /\ [][NextNodes]_vars

\* the edge-varying proposals come with the first operation of a run, so
\* that the user's edits act on the graphs they leave
RespondFirst ==
    \E mapData \in (IF ops = 0 THEN SeedProposals \cup EdgeProposals ELSE SeedProposals) :
        ProcessAIResponse(mapData)

NextEdits ==
    \/ LoadSession
    \/ HandleSend
    \/ RespondFirst
    \/ ProcessAIResponseNoMap
    \/ UserEdit

\* the same system with the edge-varying proposals first and edits after
SpecEdits == Init /\ [][NextEdits]_vars

\* the chat with the proposals that build up a store, the greeting and the
\* failures of the model-completion call
RespondSeed == \E mapData \in SeedProposals : ProcessAIResponse(mapData)

NextChat ==
    \/ LoadSession
    \/ InitChat
    \/ HandleSend
    \/ RespondSeed
    \/ ProcessAIResponseNoMap
    \/ ChatRejects
    \/ UserEdit

SpecChat == Init /\ [][NextChat]_vars

\* proposals made from the graph as it was when the request was sent: a
\* topic hanging off one of its nodes, one of its nodes repeated with an
\* edge from its first node, an edge between two of its nodes, a nodeUpdate
\* for one of its nodes
StaleProposals ==
    LET sent == flight.sent
    IN  {Proposal(<<PNode("p1", LabelB, "")>>, <<PEdge(id, "p1")>>, <<>>) :
            id \in Ids(sent)}
        \cup {Proposal(<<PNode(sent[i].id, sent[i].label, "d2")>>,
                       <<PEdge(sent[1].id, sent[i].id)>>, <<>>) : i \in DOMAIN sent}
        \cup {Proposal(<<>>, <<PEdge(a, b)>>, <<PUpdate(b, "d2")>>) :
                a, b \in Ids(sent)}

RespondStale ==
    \E mapData \in SeedProposals \cup StaleProposals : ProcessAIResponse(mapData)

NextFlight ==
    \/ LoadSession
    \/ HandleSend
    \/ RespondStale
    \/ ProcessAIResponseNoMap
    \/ UserEdit

\* the same system with the proposals a request in flight can come back with
SpecFlight == Init /\ [][NextFlight]_vars

(***************************************************************************)
(* Proposals of a malformed shape.  A malformed proposal is written as its *)
(* shape and the well-formed entries that come before the point where the  *)
(* merge stops: "noNodes" has no node list, "nodesNotList" and             *)
(* "edgesNotList" have a non-empty string or an object where the list      *)
(* belongs, "nullEntry" has a null after the entries of its node list.     *)
(***************************************************************************)
Malformed(shape, pnodes, pedges, pupdates) ==
    [shape |-> shape, nodes |-> pnodes, edges |-> pedges, nodeUpdates |-> pupdates]

\* how a call of setMindMapFromJSON with a malformed proposal ends: the
\* guard on mapData.nodes returns, mapData.nodes.forEach, the access of
\* n.label and (mapData.edges || []).map throw a TypeError
MergeOutcome(mapData) ==
    IF mapData.shape = "noNodes" THEN "returned" ELSE "threw"

\* a merge that writes the nodes it has made when it stops
FailedMergeWritesProgress(currentNodes, currentEdges, mapData, firstFresh) ==
    LET r == SetMindMapFromJSON(currentNodes, currentEdges,
                                Proposal(mapData.nodes, <<>>, mapData.nodeUpdates),
                                firstFresh)
    IN  [nodes |-> r.nodes, edges |-> currentEdges]

\* the store after a call of setMindMapFromJSON that returns early or
\* throws: updatedNodes, newNodes and idMapping are locals, and the one
\* set({nodes, edges}) at the end is not reached
FailedMerge(currentNodes, currentEdges, mapData, firstFresh) ==
    [nodes |-> currentNodes, edges |-> currentEdges]

\* processAIResponse with a JSON response whose updatedMindMap is
\* malformed: after an early return of the merge the reply is appended, a
\* throw of the merge leaves processAIResponse and is caught by the catch
\* branch of handleSend or initChat
ProcessAIResponseMalformed(mapData) ==
    /\ isLoading
    /\ LET r == FailedMerge(nodes, edges, mapData, nextId)
       IN  /\ nodes' = r.nodes
           /\ edges' = r.edges
    /\ messages' = Append(messages, IF MergeOutcome(mapData) = "returned"
                                     THEN "assistant" ELSE ErrorMessage)
    /\ isLoading' = FALSE
    /\ last' = [NoLast EXCEPT !.op = MergeOutcome(mapData), !.mapData = mapData,
                              !.preNodes = nodes, !.preEdges = edges]
    /\ flight' = NoFlight
    /\ UNCHANGED <<nextId, ops, via, hasInitialized, parsed, engine>>

MalformedProposals ==
    {Malformed("noNodes", <<>>, <<PEdge("root", "p1")>>, <<>>),
     Malformed("noNodes", <<>>, <<>>, <<>>),
     Malformed("nodesNotList", <<>>, <<>>, <<>>),
     Malformed("nullEntry", <<PNode("p1", LabelB, "")>>, <<>>, <<>>),
     Malformed("nullEntry", <<PNode("root", LabelG, "d2")>>, <<>>, <<>>),
     Malformed("edgesNotList", <<PNode("p1", LabelAVariant, "d1")>>, <<>>, <<>>)}
    \cup {Malformed("edgesNotList", <<PNode("p1", LabelB, "")>>, <<>>,
                    <<PUpdate(id, "d2")>>) : id \in Ids(nodes)}

RespondMalformed == \E mapData \in MalformedProposals : ProcessAIResponseMalformed(mapData)

NextAtomic ==
    \/ LoadSession
    \/ InitChat
    \/ HandleSend
    \/ RespondSeed
    \/ RespondMalformed
    \/ ProcessAIResponseNoMap
    \/ UserEdit

\* the chat with the responses whose proposal is malformed
SpecAtomic == Init /\ [][NextAtomic]_vars

NextManual ==
    \/ LoadSession
    \/ HandleSend
    \/ RespondSeed
    \/ ProcessAIResponseNoMap
    \/ UserEdit
    \/ ManualEdit

\* the same system with the manual edge operations of the board
SpecManual == Init /\ [][NextManual]_vars

(***************************************************************************)
(* AIService: the memoized engine.                                         *)
(***************************************************************************)
\* MODEL_OPTIONS[modelSize].id
ModelId(modelSize) ==
    IF modelSize = "1.5B" THEN "Qwen2.5-1.5B-Instruct-q4f32_1-MLC"
    ELSE "Qwen2.5-3B-Instruct-q4f16_1-MLC"

\* a variant of GetEngineResult that calls CreateMLCEngine every time
GetEngineResultNoMemo(e) ==
    [e EXCEPT !.created = Append(@, e.currentModelId),
              !.settled = Append(@, "pending"),
              !.enginePromise = Len(e.created) + 1]

\* getEngine: the memoized promise, or a new one from CreateMLCEngine
GetEngineResult(e) ==
    IF e.enginePromise # 0 THEN e
    ELSE [e EXCEPT !.created = Append(@, e.currentModelId),
                   !.settled = Append(@, "pending"),
                   !.enginePromise = Len(e.created) + 1]

\* switchModel(modelSize)
SwitchModelResult(e, modelSize) ==
    LET newModelId == ModelId(modelSize)
    IN  IF newModelId = e.currentModelId /\ e.enginePromise # 0 THEN e
        ELSE GetEngineResult([e EXCEPT !.enginePromise = 0,
                                       !.currentModelId = newModelId])

\* the call joins the calls served, with the handle it received, the number
\* of CreateMLCEngine calls so far and the current model id
Served(e, op, arg) ==
    [e EXCEPT !.calls = Append(@, [op |-> op, arg |-> arg,
                                   handle |-> e.enginePromise,
                                   started |-> Len(e.created),
                                   model |-> e.currentModelId])]

Untouched ==
    UNCHANGED <<nodes, edges, nextId, isLoading, ops, last, via, messages,
                hasInitialized, parsed, flight>>

GetEngine ==
    /\ Len(engine.calls) < MaxCalls
    /\ engine' = Served(GetEngineResult(engine), "getEngine", "")
    /\ Untouched

\* chat: const engine = await this.getEngine(onProgress)
Chat ==
    /\ Len(engine.calls) < MaxCalls
    /\ engine' = Served(GetEngineResult(engine), "chat", "")
    /\ Untouched

SwitchModel(modelSize) ==
    /\ Len(engine.calls) < MaxCalls
    /\ engine' = Served(SwitchModelResult(engine, modelSize), "switchModel",
                        modelSize)
    /\ Untouched

\* the promise of a CreateMLCEngine call resolves or rejects
Settle ==
    /\ \E k \in DOMAIN engine.settled, outcome \in {"resolved", "rejected"} :
          /\ engine.settled[k] = "pending"
          /\ engine' = [engine EXCEPT !.settled[k] = outcome]
    /\ Untouched

NextEngine ==
    \/ GetEngine
    \/ Chat
    \/ \E modelSize \in {"1.5B", "3B"} : SwitchModel(modelSize)
    \/ Settle

SpecEngine == Init /\ [][NextEngine]_vars

(***************************************************************************)
(* The text parser on its own: a call is drawn, then parsed.               *)
(***************************************************************************)
WordTrip == <<"t", "r", "i", "p">>
WordCost == <<"c", "o", "s", "t">>
WordFood == <<"f", "o", "o", "d">>
WordWifi == <<"w", "i", "f", "i">>
WordMore == <<"m", "o", "r", "e">>

\* a node of the graph handed to the parser; born is the position of the
\* node in the order of creation, which the parser does not read
GNode(id, label, born) == [id |-> id, label |-> label, born |-> born]

\* graphs the store can hold: empty; the root alone; the root and two nodes
\* of one merge; the root, a node of a merge and a later node of addNode or
\* duplicateNode (a uuid); the root and nodes of two merges; a graph whose
\* root was minted by the first merge
ParserGraphs ==
    {<<>>,
     <<GNode("root", WordTrip, 0)>>,
     <<GNode("root", WordTrip, 0),
       GNode("node-1-0-a", WordTrip \o <<" ">> \o WordCost, 1),
       GNode("node-1-1-b", WordFood, 2)>>,
     <<GNode("root", WordTrip, 0),
       GNode("node-1-0-a", <<"C">> \o Tail(WordCost), 1),
       GNode("u1", WordFood, 2)>>,
     <<GNode("root", WordTrip, 0),
       GNode("node-1-0-a", WordCost, 1),
       GNode("node-2-0-c", WordFood, 2)>>,
     <<GNode("node-1-0-a", WordTrip, 0),
       GNode("node-1-1-b", WordFood, 1)>>}

\* responses: empty, free text, a marker behind a blank, topics with and
\* without a declared parent, and one with every marker
ParserResponses ==
    {<<>>,
     <<"h", "i", "\n", " ", "\n", "o", "k">>,
     <<" ", "TOPIC", ":", " ">> \o WordWifi,
     <<"TOPIC", ":", " ">> \o WordWifi,
     <<"TOPIC", ":", " ">> \o WordCost,
     <<"PARENT:", " ">> \o WordTrip \o <<"\n", "TOPIC", ":", " ">> \o WordWifi,
     <<"PARENT:", " ">> \o WordFood \o <<"\n", "TOPIC", ":", " ">> \o WordWifi,
     <<"PARENT:", " ">> \o WordMore \o <<"\n", "TOPIC", ":", " ">> \o WordWifi,
     <<"MESSAGE:", " ", "o", "k", "\n", "TOPIC", "1", ":", " ", "[">> \o WordWifi
        \o <<"]", " ", "|", " ">> \o WordMore
        \o <<"\n", "NEWTOPIC", ":">> \o WordFood \o <<" ">> \o WordCost
        \o <<"\n", "OPTIONS:", " ", "a", ",", " ", "[", "b", "]", ",">>}

ParserCalls ==
    {[response |-> response, goal |-> WordTrip, existingNodes |-> existingNodes,
      newNodeId |-> "node-9-user", defaultParentId |-> defaultParentId,
      lastUserMessage |-> lastUserMessage] :
        response \in ParserResponses,
        existingNodes \in ParserGraphs,
        defaultParentId \in {"", "root", "node-1-0-a", "node-1-1-b", "u1", UnknownId},
        lastUserMessage \in {<<>>, WordCost, WordMore \o <<" ">> \o WordFood}}

\* calls at the threshold: ten search tokens of which three equal a token of
\* the label 'cost food more trips' and one is part of one (3.5 / 10), and
\* a topic whose name leaves no search token
WordsAtThreshold ==
    <<"a", "a", " ", "b", "b", " ", "c", "c", " ", "d", "d", " ", "e", "e", " ",
      "f", "f", " ">> \o WordCost \o <<" ">> \o WordFood \o <<" ">> \o WordMore

ThresholdCalls ==
    {[response |-> <<"TOPIC", ":", " ">> \o name, goal |-> WordTrip,
      existingNodes |->
         <<GNode("root", WordTrip, 0),
           GNode("node-1-0-a", WordWifi, 1),
           GNode("node-2-0-c",
                 WordCost \o <<" ">> \o WordFood \o <<" ">> \o WordMore
                    \o <<" ">> \o WordTrip \o <<"s">>, 2)>>,
      newNodeId |-> "node-9-user", defaultParentId |-> defaultParentId,
      lastUserMessage |-> lastUserMessage] :
        name \in {WordTrip, WordCost, <<"a">>},
        defaultParentId \in {"root", "node-1-0-a"},
        lastUserMessage \in {<<>>, WordsAtThreshold}}

NoResult ==
    [assistantResponse |-> <<>>, updatedMindMap |-> [nodes |-> <<>>, edges |-> <<>>],
     suggestions |-> <<>>]

InitParser ==
    /\ nodes = <<>>
    /\ edges = <<>>
    /\ nextId = 1
    /\ isLoading = FALSE
    /\ ops = 0
    /\ last = NoLast
    /\ via = {}
    /\ messages = <<>>
    /\ hasInitialized = FALSE
    /\ flight = NoFlight
    /\ engine = NoEngine
    /\ parsed \in {[in |-> call, out |-> NoResult, done |-> FALSE] :
                     call \in ParserCalls \cup ThresholdCalls}

Parse ==
    /\ ~parsed.done
    /\ parsed' = [parsed EXCEPT
                    !.out = ParseAIResponse(parsed.in.response, parsed.in.goal,
                                            parsed.in.existingNodes,
                                            parsed.in.newNodeId,
                                            parsed.in.defaultParentId,
                                            parsed.in.lastUserMessage),
                    !.done = TRUE]
    /\ UNCHANGED <<nodes, edges, nextId, isLoading, ops, last, via, messages,
                   hasInitialized, flight, engine>>

NextParser == Parse

SpecParser == InitParser /\ [][NextParser]_vars

(***************************************************************************)
(* Properties.                                                             *)
(***************************************************************************)
Merged == last.op = "merge"

\* the store was built from the empty store by merges alone
MergesOnly == via \subseteq {"merge"}

Pairs(es) == {<<es[i].source, es[i].target>> : i \in DOMAIN es}

NoDuplicatePairs(es) ==
    \A i, j \in DOMAIN es :
        i # j => <<es[i].source, es[i].target>> # <<es[j].source, es[j].target>>

\* the edges the latest merge appended, by the code path that made them
AddedEdges(kind) ==
    SelectSeq(SubSeq(edges, Len(last.preEdges) + 1, Len(edges)),
              LAMBDA e : e.kind = kind)

\* C1: in every state reached from the empty store (or a loaded session) by
\* merges, addNode, deleteNode and duplicateNode, both endpoints of every
\* edge are ids of nodes in the store.
C1_NoDanglingEdges ==
    \A i \in DOMAIN edges :
        edges[i].source \in Ids(nodes) /\ edges[i].target \in Ids(nodes)

\* a merge dropped a proposal edge whose target resolves to no node, and
\* accepted another edge of the same proposal
C1_Witness ==
    /\ Merged
    /\ \E i \in DOMAIN last.mapData.edges :
          Remap(last.idMapping, last.mapData.edges[i].target) \notin Ids(nodes)
    /\ Len(AddedEdges("edge")) > 0

\* C2: in a run of merges from the empty store, a merge into a store without
\* duplicate (source, target) pairs leaves the store without duplicate pairs.
C2_MergeKeepsPairsUnique ==
    (Merged /\ MergesOnly /\ NoDuplicatePairs(last.preEdges)) => NoDuplicatePairs(edges)

\* the store nodes, before the latest merge, whose normalized label is that
\* of proposal entry i
Matches(i) ==
    {k \in DOMAIN last.preNodes :
        NormalizeLabel(last.preNodes[k].label)
            = NormalizeLabel(last.mapData.nodes[i].label)}

\* the proposal entries of the latest merge whose label is not blank
Labelled == {i \in DOMAIN last.mapData.nodes :
                NormalizeLabel(last.mapData.nodes[i].label) # <<>>}

\* entry i carries the root marker and the store held a node with the id
\* 'root': the merge treats it as an update of that node
RootHandled(i) == last.mapData.nodes[i].id = "root" /\ "root" \in Ids(last.preNodes)

\* the last node in store order among Matches(i)
LastMatch(i) == last.preNodes[CHOOSE k \in Matches(i) : \A j \in Matches(i) : j <= k]

\* entry j is resolved to a store node with the given id
ResolvesTo(j, id) ==
    /\ j \in Labelled
    /\ IF RootHandled(j) THEN id = "root"
       ELSE Matches(j) # {} /\ LastMatch(j).id = id

\* C3 as stated: in a run of merges, for a proposal node whose normalized
\* label is that of a store node, the merge creates no node with that label,
\* the store node takes the proposal's description when one is supplied, and
\* the proposal node's id is rewritten to the store node's id.
C3_LabelMatchReusesNode ==
    (Merged /\ MergesOnly) =>
        \A i \in Labelled : \A k \in Matches(i) :
            LET n == last.mapData.nodes[i]
                existing == last.preNodes[k]
            IN  /\ \A m \in DOMAIN last.newNodes :
                      NormalizeLabel(last.newNodes[m].label) # NormalizeLabel(n.label)
                /\ n.description # "" =>
                      \E m \in DOMAIN nodes : /\ nodes[m].id = existing.id
                                               /\ nodes[m].description = n.description
                /\ Remap(last.idMapping, n.id) = existing.id

\* C3: for a proposal node with a label that is not blank, not treated as a
\* root update, whose normalized label is that of a store node, X being the
\* last such node in store order: the merge creates no node with that label;
\* the proposal node's id is rewritten to X's id unless a later proposal node
\* carries the same proposal id; and X takes the proposal's description, when
\* one is supplied, unless a nodeUpdate or another proposal node of the same
\* merge resolves to X's id.
C3_LabelMatchReusesLastNode ==
    Merged =>
        \A i \in Labelled :
            (Matches(i) # {} /\ ~RootHandled(i)) =>
                LET pn == last.mapData.nodes
                    n == pn[i]
                    X == LastMatch(i)
                IN  /\ \A m \in DOMAIN last.newNodes :
                          NormalizeLabel(last.newNodes[m].label) # NormalizeLabel(n.label)
                    /\ (\A j \in Labelled : j > i => pn[j].id # n.id) =>
                          /\ MapHas(last.idMapping, n.id)
                          /\ last.idMapping[n.id] = X.id
                    /\ (/\ n.description # ""
                        /\ \A u \in DOMAIN last.mapData.nodeUpdates :
                              last.mapData.nodeUpdates[u].id # X.id
                        /\ \A j \in Labelled : j # i => ~ResolvesTo(j, X.id)) =>
                          \E m \in DOMAIN nodes : /\ nodes[m].id = X.id
                                                   /\ nodes[m].label = X.label
                                                   /\ nodes[m].description = n.description

\* a merge resolved a proposal node to a store node whose label differs from
\* the proposal's in case and whitespace, gave that node the proposal's
\* description, and added a proposal edge that named the proposal node with
\* the store node as its target
C3_Witness ==
    /\ Merged
    /\ \E i \in Labelled :
          /\ Matches(i) # {} /\ ~RootHandled(i)
          /\ last.mapData.nodes[i].label # LastMatch(i).label
          /\ last.mapData.nodes[i].description \notin {"", LastMatch(i).description}
          /\ \E m \in DOMAIN nodes :
                /\ nodes[m].id = LastMatch(i).id
                /\ nodes[m].description = last.mapData.nodes[i].description
          /\ \E e \in DOMAIN last.mapData.edges :
                last.mapData.edges[e].target = last.mapData.nodes[i].id
          /\ \E e \in DOMAIN AddedEdges("edge") :
                AddedEdges("edge")[e].target = LastMatch(i).id

\* the node the store treats as its root: the first node in store order
RootIdOf(ns) == ns[1].id

\* the edges a merge is to add for the proposal's edges, in the proposal's
\* order: endpoints remapped, an unresolved source replaced by the first node
\* of the merged store when fallback is set, kept when both endpoints are
\* live and the store did not hold the pair
ExpectedEdges(fallback) ==
    LET pe == last.mapData.edges
        live == Ids(nodes)
        src(e) == LET s == Remap(last.idMapping, e.source)
                  IN  IF s \notin live /\ fallback /\ nodes # <<>>
                      THEN RootIdOf(nodes) ELSE s
        mapped == [i \in DOMAIN pe |->
                      Edge("edge", src(pe[i]), Remap(last.idMapping, pe[i].target))]
    IN  SelectSeq(mapped, LAMBDA e : /\ e.source \in live
                                     /\ e.target \in live
                                     /\ <<e.source, e.target>> \notin Pairs(last.preEdges))

\* C6 as stated: the edges a merge adds for the proposal's edges are those
\* whose source and target both resolve to live nodes after id remapping (and
\* whose pair the store did not hold); an edge with an unresolved source or
\* target adds nothing.
C6_UnresolvedEndpointDropped ==
    (Merged /\ MergesOnly) => AddedEdges("edge") = ExpectedEdges(FALSE)

\* C6: a proposal edge whose target does not resolve to a live node after id
\* remapping adds nothing; a proposal edge whose source does not resolve is
\* kept with the first node of the merged store as its source, if its target
\* resolves and the store did not hold that pair; the other edges of the
\* proposal are processed all the same.
C6_UnresolvedTargetDropped ==
    Merged => AddedEdges("edge") = ExpectedEdges(TRUE)

\* a merge kept an edge with an unresolved source by hanging it off the first
\* node, and dropped another edge of the same proposal whose target did not
\* resolve
C6_Witness ==
    /\ Merged
    /\ \E i, j \in DOMAIN last.mapData.edges :
          /\ i # j
          /\ Remap(last.idMapping, last.mapData.edges[i].source) \notin Ids(nodes)
          /\ Remap(last.idMapping, last.mapData.edges[i].target) \in Ids(nodes)
          /\ Remap(last.idMapping, last.mapData.edges[j].target) \notin Ids(nodes)
    /\ Len(AddedEdges("edge")) = 1
    /\ AddedEdges("edge")[1].source = RootIdOf(nodes)

NewIds == Ids(last.newNodes)

\* the indices of the edges of es that point at id
Incoming(es, id) == {i \in DOMAIN es : es[i].target = id}

\* the ids reached from the ids of seen along the edges es, source to target
RECURSIVE ReachableFrom(_, _)
ReachableFrom(seen, es) ==
    LET more == {es[i].target : i \in {j \in DOMAIN es : es[j].source \in seen}}
    IN  IF more \subseteq seen THEN seen ELSE ReachableFrom(seen \cup more, es)

\* C4: after a merge into a store that has a root (a store that merges have
\* built), every new node that no proposal edge points at has exactly one
\* incoming edge, and that edge comes from the root the store had.
C4_OrphansHangOffRoot ==
    (Merged /\ MergesOnly /\ last.preNodes # <<>>) =>
        \A id \in NewIds :
            (\A i \in DOMAIN AddedEdges("edge") : AddedEdges("edge")[i].target # id)
            => /\ Cardinality(Incoming(edges, id)) = 1
               /\ \A i \in Incoming(edges, id) :
                     edges[i].source = RootIdOf(last.preNodes)

\* C5: after a merge into a store (built by merges) whose nodes are all
\* reachable from the root, every node the merge created is reachable from
\* the root.
C5_NewNodesReachable ==
    (/\ Merged
     /\ MergesOnly
     /\ nodes # <<>>
     /\ last.preNodes # <<>> =>
            Ids(last.preNodes)
                \subseteq ReachableFrom({RootIdOf(last.preNodes)}, last.preEdges))
    => LET root == IF last.preNodes # <<>> THEN RootIdOf(last.preNodes)
                   ELSE RootIdOf(nodes)
       IN  NewIds \subseteq ReachableFrom({root}, edges)

\* C10: in a run of merges from the empty store, a merge into a non-empty
\* store leaves the same node first in store order: the node treated as root
\* does not change.
C10_RootStaysFirst ==
    (Merged /\ MergesOnly /\ last.preNodes # <<>>) =>
        nodes # <<>> /\ RootIdOf(nodes) = RootIdOf(last.preNodes)

\* the same proposal merged a second time, right after the latest merge
SecondMerge == SetMindMapFromJSON(nodes, edges, last.mapData, nextId)

\* C7: merging the proposal of the latest merge again (the store being one
\* that merges have built) adds no edge whose (source, target) pair the store
\* already holds or that it adds twice, and if it creates no node it adds no
\* edge at all.
C7_SecondMergeAddsNoEdges ==
    (Merged /\ MergesOnly) =>
        LET r == SecondMerge
            added == SubSeq(r.edges, Len(edges) + 1, Len(r.edges))
        IN  /\ NoDuplicatePairs(added)
            /\ Pairs(added) \cap Pairs(edges) = {}
            /\ r.newNodes = <<>> => Len(r.edges) = Len(edges)

\* the latest merge, in a run of merges from the empty store, took a proposal
\* whose only node is {id: 'root', label: L, description: D}, with a label
\* that is not blank
RootOnlyMerge ==
    /\ Merged
    /\ MergesOnly
    /\ Len(last.mapData.nodes) = 1
    /\ last.mapData.nodes[1].id = "root"
    /\ NormalizeLabel(last.mapData.nodes[1].label) # <<>>
    /\ last.mapData.nodeUpdates = <<>>

\* C8: after merging a root-only proposal {root, L, D} twice, the root is the
\* only node with its id, carries label L and description D, and no two
\* nodes share an id or a normalized label.
C8_RootUpdateTwice ==
    RootOnlyMerge =>
        LET r == SecondMerge
            p == last.mapData.nodes[1]
            root == IF last.preNodes # <<>> THEN RootIdOf(last.preNodes)
                    ELSE RootIdOf(r.nodes)
            roots == {i \in DOMAIN r.nodes : r.nodes[i].id = root}
        IN  /\ Cardinality(roots) = 1
            /\ \A i \in roots :
                  r.nodes[i].label = p.label /\ r.nodes[i].description = p.description
            /\ \A i, j \in DOMAIN r.nodes :
                  i # j => /\ r.nodes[i].id # r.nodes[j].id
                           /\ NormalizeLabel(r.nodes[i].label)
                                # NormalizeLabel(r.nodes[j].label)

\* C9: when the store has a root (made by an earlier merge or loaded with the
\* id 'root'), a proposal entry with the id 'root' (the
\* only such entry, with a label that is not blank) updates the root in
\* place: the root keeps its id, takes the entry's label and its description
\* if that is not empty, 'root' maps to the root's id, and no node is created
\* for the entry.
C9_RootMarkerUpdatesRoot ==
    (Merged /\ via \subseteq {"merge", "load"} /\ last.preNodes # <<>>) =>
        LET pn == last.mapData.nodes
            marked == {i \in DOMAIN pn :
                         pn[i].id = "root" /\ NormalizeLabel(pn[i].label) # <<>>}
            old == last.preNodes[1]
        IN  (Cardinality(marked) = 1 /\ last.mapData.nodeUpdates = <<>>) =>
                \A i \in marked :
                    /\ \E k \in DOMAIN nodes :
                          /\ nodes[k].id = old.id
                          /\ nodes[k].label = pn[i].label
                          /\ nodes[k].description =
                                IF pn[i].description # "" THEN pn[i].description
                                ELSE old.description
                    /\ MapHas(last.idMapping, "root")
                    /\ last.idMapping["root"] = old.id
                    /\ \A k \in DOMAIN last.newNodes :
                          last.newNodes[k].label # pn[i].label

\* the latest operation was deleteNode(last.arg)
Deleted == last.op = "deleteNode"

\* C11: deleteNode(id) removes exactly the nodes whose ids are reachable from
\* id along edges, source to target, id included, and exactly the edges with
\* an endpoint among them; the other nodes and edges stay, in their order.
C11_DeleteRemovesDescendants ==
    Deleted =>
        LET gone == ReachableFrom({last.arg}, last.preEdges)
        IN  /\ nodes = SelectSeq(last.preNodes, LAMBDA n : n.id \notin gone)
            /\ edges = SelectSeq(last.preEdges,
                                 LAMBDA e : e.source \notin gone /\ e.target \notin gone)

\* a deleteNode whose traversal came back to the id it started from (a cycle
\* or a self-loop), that removed at least two nodes and left a node behind
C11_Witness ==
    /\ Deleted
    /\ \E i \in DOMAIN last.preEdges :
          /\ last.preEdges[i].target = last.arg
          /\ last.preEdges[i].source \in ReachableFrom({last.arg}, last.preEdges)
    /\ Len(nodes) + 2 <= Len(last.preNodes)
    /\ nodes # <<>>

\* C12: deleteNode(id) with an id that names no node of the store leaves the
\* nodes and the edges as they were.
C12_DeleteUnknownIsNoOp ==
    (Deleted /\ last.arg \notin Ids(last.preNodes)) =>
        nodes = last.preNodes /\ edges = last.preEdges

\* deleteNode ran with an id that names no node, on a store that holds nodes
\* and edges
C12_Witness ==
    /\ Deleted
    /\ last.arg \notin Ids(last.preNodes)
    /\ last.preNodes # <<>>
    /\ last.preEdges # <<>>
    /\ nodes = last.preNodes

\* C13: deleteNode of the root (the first node in store order) leaves the
\* store with no nodes and no edges.
C13_DeleteRootDeletesAll ==
    (Deleted /\ last.preNodes # <<>> /\ last.arg = RootIdOf(last.preNodes)) =>
        nodes = <<>> /\ edges = <<>>

\* every id that carried a description in pre and is still an id of post
\* carries a description in post
KeepsDescriptions(pre, post) ==
    \A k \in DOMAIN pre :
        (pre[k].description # "" /\ pre[k].id \in Ids(post)) =>
            \E m \in DOMAIN post : /\ post[m].id = pre[k].id
                                    /\ post[m].description # ""

\* proposals whose one entry carries the root marker and no description
RootEntriesWithoutDescription ==
    {Proposal(<<PNode("root", label, "")>>, <<>>, <<>>) : label \in {LabelG, LabelB}}

\* C14: a merge clears no description: a node that carried a description
\* before the merge and is in the store after it still carries one.  This is
\* stated, for stores that loading and merges have built, for the latest
\* merge and for the merge of a root entry without a description into the
\* store as it is now.
C14_MergeKeepsDescriptions ==
    via \subseteq {"load", "merge"} =>
    /\ Merged => KeepsDescriptions(last.preNodes, nodes)
    /\ \A mapData \in RootEntriesWithoutDescription :
          KeepsDescriptions(nodes,
                            SetMindMapFromJSON(nodes, edges, mapData, nextId).nodes)


(***************************************************************************)
(* The text parser.                                                        *)
(***************************************************************************)
\* the marker words the parser recognizes at the start of a line
Markers == {"MESSAGE:", "QUESTION:", "PARENT:", "TOPIC", "NEWTOPIC", "OPTIONS:"}

\* no line of the response starts with a marker
Unstructured(response) ==
    \A i \in DOMAIN response :
        response[i] \in Markers => i > 1 /\ response[i - 1] # "\n"

Parsed == parsed.done

\* C15: on a response without a recognized marker the parser returns a
\* proposal with no nodes and no edges and a non-empty assistant message, on
\* the first turn and on later turns.
C15_UnstructuredGivesEmptyProposal ==
    Parsed /\ Unstructured(parsed.in.response) =>
        /\ parsed.out.updatedMindMap.nodes = <<>>
        /\ parsed.out.updatedMindMap.edges = <<>>
        /\ parsed.out.assistantResponse # <<>>


\* the topics of the parsed call, and the parent chosen for the i-th
Topics == ParsedLines(parsed.in.response, parsed.in.goal).topics

ParentOf(i) == parsed.out.updatedMindMap.edges[i].source

LaterTurn == Parsed /\ parsed.in.existingNodes # <<>>

\* the i-th topic declares no parent and no node scores above the threshold
Unanchored(i) ==
    /\ Topics[i].preferredParent = <<>>
    /\ SemanticWinner(parsed.in.existingNodes, RootIdOf(parsed.in.existingNodes),
                      parsed.in.lastUserMessage, Topics[i].name) = ""

\* the focus passed in is defined and is not the root
HasFocus ==
    /\ parsed.in.defaultParentId # ""
    /\ parsed.in.defaultParentId # RootIdOf(parsed.in.existingNodes)

\* C16: for a topic with no declared parent and no node scoring above the
\* threshold, the parent is the focus when a focus other than the root is
\* given; without such a focus and with no node besides the root in the
\* graph, the parent is the root.
C16_FocusThenRoot ==
    LaterTurn =>
        \A i \in DOMAIN Topics :
            Unanchored(i) =>
                /\ HasFocus => ParentOf(i) = parsed.in.defaultParentId
                /\ (~HasFocus /\ Len(parsed.in.existingNodes) = 1)
                      => ParentOf(i) = RootIdOf(parsed.in.existingNodes)

\* a topic without a declared parent or a scoring node hangs off the focus,
\* a node of the graph that is neither the root nor the most recent node
C16_Witness ==
    /\ LaterTurn
    /\ HasFocus
    /\ parsed.in.defaultParentId \in Ids(parsed.in.existingNodes)
    /\ parsed.in.defaultParentId
          # MostRecentNode(parsed.in.existingNodes,
                           RootIdOf(parsed.in.existingNodes)).id
    /\ \E i \in DOMAIN Topics :
          Unanchored(i) /\ ParentOf(i) = parsed.in.defaultParentId


\* the nodes of the parsed graph other than its root
NonRoot ==
    SelectSeq(parsed.in.existingNodes,
              LAMBDA n : n.id # RootIdOf(parsed.in.existingNodes))

\* C17: for a topic with no declared parent, no node scoring above the
\* threshold and no focus other than the root, the parent is the node
\* created last among the nodes other than the root, whichever operation
\* created it and also when one merge created several nodes.
C17_RecencyPicksLastCreated ==
    LaterTurn /\ ~HasFocus /\ NonRoot # <<>> =>
        \A i \in DOMAIN Topics :
            Unanchored(i) =>
                \E k \in DOMAIN NonRoot :
                    /\ ParentOf(i) = NonRoot[k].id
                    /\ \A j \in DOMAIN NonRoot : NonRoot[j].born <= NonRoot[k].born


\* C18: on a non-empty graph the parent chosen for a topic's edge is the id
\* of a node of that graph, whatever the topic, the declared parent, the
\* last user message and the focus id passed in.
C18_ParentIsExistingNode ==
    LaterTurn =>
        \A i \in DOMAIN Topics : ParentOf(i) \in Ids(parsed.in.existingNodes)


\* the nodes other than the root whose lowercased label contains the name
\* or is contained in it
NamedBy(name) ==
    {NonRoot[k].id : k \in {k \in DOMAIN NonRoot :
        \/ Includes(ToLowerCase(NonRoot[k].label), ToLowerCase(name))
        \/ Includes(ToLowerCase(name), ToLowerCase(NonRoot[k].label))}}

\* C19: when a topic declares a parent and the name matches the label of a
\* node other than the root, the parent is such a node, never the root.
C19_DeclaredParentIsNonRoot ==
    LaterTurn =>
        \A i \in DOMAIN Topics :
            (Topics[i].preferredParent # <<>>
             /\ NamedBy(Topics[i].preferredParent) # {})
                => ParentOf(i) \in NamedBy(Topics[i].preferredParent)


(***************************************************************************)
(* Failures of the model-completion call.                                  *)
(***************************************************************************)
Rejected == last.op = "reject"

\* C20: when the model-completion call rejects, during handleSend or during
\* the greeting, the nodes and edges are what they were, one assistant
\* message reporting the failure ends the chat, and the loading flag is
\* false.
C20_RejectionLeavesGraph ==
    Rejected =>
        /\ nodes = last.preNodes
        /\ edges = last.preEdges
        /\ ~isLoading
        /\ messages \in {<<"ready">>, <<"user", "error">>,
                          <<"earlier", "user", "error">>}

\* a send on a graph with an edge was rejected
C20_Witness ==
    /\ Rejected
    /\ edges # <<>>
    /\ messages[Len(messages)] = "error"

\* the greeting was rejected
C20_GreetingRejected == Rejected /\ messages = <<"ready">>


(***************************************************************************)
(* Edits while a request is in flight.                                     *)
(***************************************************************************)
\* C21: the merge of a response works on the store as it is when the
\* response arrives: what the user added while the request was in flight
\* is still there, no node the user deleted in that time is back and no
\* edge names one, and every edge joins two nodes of the store.
C21_MergeAtCompletionTime ==
    Merged =>
        /\ flight.added \subseteq Ids(nodes)
        /\ flight.addedPairs \subseteq Pairs(edges)
        /\ flight.deleted \cap Ids(nodes) = {}
        /\ \A i \in DOMAIN edges :
              /\ edges[i].source \notin flight.deleted
              /\ edges[i].target \notin flight.deleted
              /\ edges[i].source \in Ids(nodes)
              /\ edges[i].target \in Ids(nodes)

\* a response that names a node the user deleted while the request was in
\* flight has been merged
C21_Witness ==
    /\ Merged
    /\ flight.deleted # {}
    /\ \E i \in DOMAIN last.mapData.edges :
          last.mapData.edges[i].source \in flight.deleted

\* a response has been merged after the user added a node with its edge
C21_WitnessAdded == Merged /\ flight.added # {} /\ flight.addedPairs # {}


(***************************************************************************)
(* addNode.                                                                *)
(***************************************************************************)
Added == last.op = "addNode"

\* the parent addNode is to use: parentId when it names a node, else the
\* first node of the store, "" on an empty store
ExpectedParent ==
    IF last.arg \in Ids(last.preNodes) THEN last.arg
    ELSE IF last.preNodes # <<>> THEN last.preNodes[1].id
    ELSE ""

\* C22: addNode appends one node with a fresh id and leaves the nodes and
\* edges it found as they were; it appends one edge to the new node, from
\* parentId when that is a live node and else from the first node of the
\* store, and no edge when the store was empty.
C22_AddNodeAddsOneNode ==
    Added =>
        /\ Len(nodes) = Len(last.preNodes) + 1
        /\ SubSeq(nodes, 1, Len(last.preNodes)) = last.preNodes
        /\ nodes[Len(nodes)].id \notin Ids(last.preNodes)
        /\ \A i \in DOMAIN last.preEdges :
              nodes[Len(nodes)].id \notin {last.preEdges[i].source,
                                          last.preEdges[i].target}
        /\ IF ExpectedParent = ""
           THEN edges = last.preEdges
           ELSE /\ Len(edges) = Len(last.preEdges) + 1
                /\ SubSeq(edges, 1, Len(last.preEdges)) = last.preEdges
                /\ edges[Len(edges)].source = ExpectedParent
                /\ edges[Len(edges)].target = nodes[Len(nodes)].id

\* addNode ran with a parentId that names no node, on a store of several
\* nodes, and the new node hangs off the first
C22_Witness ==
    /\ Added
    /\ last.arg = UnknownId
    /\ Len(last.preNodes) > 1
    /\ edges[Len(edges)].source = last.preNodes[1].id
    /\ edges[Len(edges)].target = nodes[Len(nodes)].id

\* addNode ran on an empty store
C22_WitnessEmpty == Added /\ last.preNodes = <<>> /\ edges = <<>>


(***************************************************************************)
(* Labels and ids.                                                         *)
(***************************************************************************)
\* C23: in a store built from the empty store by merges alone no two nodes
\* have the same normalized label, also when one proposal holds several
\* entries with one new label and different descriptions.
C23_MergesKeepLabelsUnique ==
    MergesOnly =>
        \A i, j \in DOMAIN nodes :
            i # j => NormalizeLabel(nodes[i].label) # NormalizeLabel(nodes[j].label)


(***************************************************************************)
(* Semantic anchoring.                                                     *)
(***************************************************************************)
\* twice the matchScore of the k-th node other than the root for the i-th
\* topic, and the number of search tokens
Halves(k, i) ==
    MatchScore(SearchTokens(parsed.in.lastUserMessage, Topics[i].name),
               SplitWords(ToLowerCase(NonRoot[k].label)))

TokenCount(i) == Len(SearchTokens(parsed.in.lastUserMessage, Topics[i].name))

\* the score Halves / 2 / TokenCount is strictly greater than 0.35
AboveThreshold(k, i) == TokenCount(i) > 0 /\ 100 * Halves(k, i) > 35 * 2 * TokenCount(i)

\* the parent the fallback chain gives
FallbackParent ==
    LET rootId == RootIdOf(parsed.in.existingNodes)
    IN  OrId(AnchorFallback(IF HasFocus THEN parsed.in.defaultParentId ELSE "",
                            MostRecentNode(parsed.in.existingNodes, rootId),
                            rootId, parsed.in.defaultParentId),
             OrId(rootId, parsed.in.defaultParentId))

\* C24: for a topic whose declared parent matches no node, a node other
\* than the root with the highest score is the parent when that score is
\* strictly greater than 0.35; when the best score is 0.35 or lower or there
\* are no search tokens, the parent is the one the fallback chain gives.
C24_ThresholdIsStrict ==
    LaterTurn =>
        \A i \in DOMAIN Topics :
            DeclaredParent(parsed.in.existingNodes, Topics[i].preferredParent) = "" =>
                IF \E k \in DOMAIN NonRoot : AboveThreshold(k, i)
                THEN \E k \in DOMAIN NonRoot :
                        /\ ParentOf(i) = NonRoot[k].id
                        /\ \A j \in DOMAIN NonRoot : Halves(j, i) <= Halves(k, i)
                ELSE ParentOf(i) = FallbackParent

\* the best score is exactly 0.35 and the topic hangs off the focus, not
\* off the best-scoring node
C24_Witness ==
    /\ LaterTurn
    /\ \E i \in DOMAIN Topics :
          /\ \E k \in DOMAIN NonRoot :
                /\ 100 * Halves(k, i) = 35 * 2 * TokenCount(i)
                /\ TokenCount(i) > 0
                /\ ParentOf(i) # NonRoot[k].id
          /\ ParentOf(i) = parsed.in.defaultParentId

\* a score above 0.35 decides the parent against the focus
C24_WitnessAbove ==
    /\ LaterTurn
    /\ HasFocus
    /\ \E i \in DOMAIN Topics :
          /\ \E k \in DOMAIN NonRoot : AboveThreshold(k, i) /\ ParentOf(i) = NonRoot[k].id
          /\ ParentOf(i) # parsed.in.defaultParentId


(***************************************************************************)
(* The memoized engine.                                                    *)
(***************************************************************************)
Calls == engine.calls

\* the handle, the number of CreateMLCEngine calls and the model id before
\* the k-th call
HandleBefore(k) == IF k = 1 THEN 0 ELSE Calls[k - 1].handle

StartedBefore(k) == IF k = 1 THEN 0 ELSE Calls[k - 1].started

ModelBefore(k) == IF k = 1 THEN NoEngine.currentModelId ELSE Calls[k - 1].model

IsSwitch(k) == Calls[k].op = "switchModel"

\* C25: over getEngine and chat calls with no switchModel among them engine
\* creation starts at most once and every call receives the same handle,
\* whether or not the creation has resolved; switchModel to another model
\* gives a new handle from exactly one new creation for the new model id;
\* switchModel to the loaded model starts none.
C25_EngineIsMemoized ==
    /\ \A i, j \in DOMAIN Calls :
          (i <= j /\ \A k \in i..j : ~IsSwitch(k)) =>
              /\ Calls[i].handle = Calls[j].handle
              /\ Calls[j].started = Calls[i].started
              /\ Calls[i].started <= StartedBefore(i) + 1
    /\ \A k \in DOMAIN Calls :
          IsSwitch(k) =>
              IF ModelId(Calls[k].arg) # ModelBefore(k)
              THEN /\ Calls[k].started = StartedBefore(k) + 1
                   /\ Calls[k].handle = Calls[k].started
                   /\ Calls[k].handle # HandleBefore(k)
                   /\ engine.created[Calls[k].started] = ModelId(Calls[k].arg)
              ELSE HandleBefore(k) # 0 =>
                      /\ Calls[k].started = StartedBefore(k)
                      /\ Calls[k].handle = HandleBefore(k)

\* two calls were served by one creation before it resolved, then the model
\* was switched and switched again to the model then loaded
C25_Witness ==
    /\ Len(Calls) = 4
    /\ Calls[1].op = "getEngine" /\ Calls[2].op = "chat"
    /\ Calls[2].handle = 1
    /\ IsSwitch(3) /\ Calls[3].handle = 2
    /\ IsSwitch(4) /\ Calls[4].arg = Calls[3].arg
    /\ engine.settled = <<"pending", "pending">>
    /\ Len(engine.created) = 2


(***************************************************************************)
(* Manual edge operations.                                                 *)
(***************************************************************************)
Manual == last.op \in {"onConnect", "onReconnect"}

\* C26: a manual connect or reconnect on edges without a duplicate (source,
\* target) pair leaves edges without a duplicate pair.
C26_ManualEditsKeepPairsUnique ==
    (Manual /\ NoDuplicatePairs(last.preEdges)) => NoDuplicatePairs(edges)


(***************************************************************************)
(* Ids, self-loops and the frame of a merge.                               *)
(***************************************************************************)
\* C27: no two entries of the node list have the same id, after any
\* sequence of merges and edits and for every shape of proposal.
C27_NodeIdsUnique ==
    \A i, j \in DOMAIN nodes : i # j => nodes[i].id # nodes[j].id

\* C28: no edge a merge adds for an orphan joins a node to itself, also on
\* the first merge into an empty store.
C28_NoSelfLoopOrphanEdge ==
    Merged =>
        \A i \in DOMAIN AddedEdges("edge-orphan") :
            AddedEdges("edge-orphan")[i].source # AddedEdges("edge-orphan")[i].target


\* the proposal of the latest merge matches the node: an entry carries the
\* root marker and the node has the id 'root', an entry has the node's
\* normalized label, or a nodeUpdate names the node's id
MatchedByProposal(n) ==
    \/ \E i \in DOMAIN last.mapData.nodes :
          \/ last.mapData.nodes[i].id = "root" /\ n.id = "root"
          \/ NormalizeLabel(last.mapData.nodes[i].label) = NormalizeLabel(n.label)
    \/ \E i \in DOMAIN last.mapData.nodeUpdates : last.mapData.nodeUpdates[i].id = n.id

\* C29: a merge keeps every node id and every edge (kind, source and
\* target) the store held, and leaves the label and the data other than
\* the description of the nodes the proposal does not match as they were.
C29_MergeIsMonotone ==
    Merged =>
        /\ Ids(last.preNodes) \subseteq Ids(nodes)
        /\ Len(edges) >= Len(last.preEdges)
        /\ \A i \in DOMAIN last.preEdges : edges[i] = last.preEdges[i]
        /\ \A i \in DOMAIN last.preNodes :
              ~MatchedByProposal(last.preNodes[i]) =>
                  \E j \in DOMAIN nodes :
                      /\ nodes[j].id = last.preNodes[i].id
                      /\ nodes[j].label = last.preNodes[i].label
                      /\ nodes[j].type = last.preNodes[i].type

\* a merge updated one node, created another and left a third, which the
\* proposal does not match, alone, on a store with an edge
C29_Witness ==
    /\ Merged
    /\ last.preEdges # <<>>
    /\ last.newNodes # <<>>
    /\ \E i, j \in DOMAIN last.preNodes :
          /\ ~MatchedByProposal(last.preNodes[i])
          /\ MatchedByProposal(last.preNodes[j])
          /\ last.preNodes[j] \notin {nodes[k] : k \in DOMAIN nodes}


(***************************************************************************)
(* Merges that do not complete.                                            *)
(***************************************************************************)
MergeFailed == last.op \in {"returned", "threw"}

C30_WitnessReturned == last.op = "returned" /\ nodes # <<>>

====
